---- MODULE Spec2Model ----
(***************************************************************************)
(* Span, Position and Issue (src/src/acquisition/dotnetAcquisition.ts) and *)
(* the parameter-file association functions (src/unnamed/part_000).        *)
(*                                                                         *)
(* Span, Position and Issue are immutable value classes.  Each class gets  *)
(* a specification whose Init draws the objects the methods are called on  *)
(* and whose actions call one method each; `last` records the call, its    *)
(* arguments and what it returned.  A returned object is a record          *)
(* [ref, span]: `ref` says which object came back ("this", "lhs", "rhs",   *)
(* a "new" one, or "undefined") and `span` is its value.                   *)
(***************************************************************************)
EXTENDS Integers, Sequences, FiniteSets, TLC

VARIABLES
    lhs,        \* Span spec: the Span the methods are called on (or undefined)
    rhs,        \* Span spec: the other Span (or undefined)
    last,       \* the last call: its name, arguments and result
    isWin32,                    \* constants.isWin32 (fixed by the platform)
    workspaceFolders,           \* vscode workspace.workspaceFolders (folder paths)
    checkForMatchingParamFiles, \* the user's checkForMatchingParamFiles setting
    userParamFiles,             \* user-level (global) value of the parameterFiles setting
    neverAskFiles,              \* globalState[dontAskAboutParamFiles]
    _filesToIgnoreThisSession,  \* module-level Set of normalized template paths
    pending,    \* handler calls suspended at an await, each with its locals
    stream      \* the read stream of doesFileContainString and its promise

spanVars == <<lhs, rhs>>
paramVars == <<isWin32, workspaceFolders, checkForMatchingParamFiles, userParamFiles,
               neverAskFiles, _filesToIgnoreThisSession, pending, stream>>
vars == <<lhs, rhs, last, isWin32, workspaceFolders, checkForMatchingParamFiles,
          userParamFiles, neverAskFiles, _filesToIgnoreThisSession, pending, stream>>

\* ------------------------------------------------------------------ bounds
MaxStart == 3        \* constructor argument _startIndex ranges over 0..MaxStart
MaxLen == 4          \* constructor argument _length ranges over 0..MaxLen
MaxMove == 2         \* movement ranges over -MaxMove..MaxMove

Undefined == [undefined |-> TRUE]

Movements == (0 - MaxMove)..MaxMove
Indexes == (0 - 1)..(MaxStart + MaxLen + 1)

\* ------------------------------------------------------------------- Span
min(a, b) == IF a <= b THEN a ELSE b
max(a, b) == IF a >= b THEN a ELSE b

Span(_startIndex, _length) == [startIndex |-> _startIndex, length |-> _length]

Spans == {Span(s, l) : s \in 0..MaxStart, l \in 0..MaxLen}

endIndexNoEmpty(this) == this.startIndex + this.length - 1
endIndex(this) ==
    this.startIndex + (IF this.length > 0 THEN this.length - 1 ELSE 0)

afterEndIndex(this) == this.startIndex + this.length

contains(this, index, includeAfterEndIndex) ==
    LET result == this.startIndex <= index IN
    IF result
    THEN IF includeAfterEndIndex
         THEN index <= afterEndIndex(this)
         ELSE index <= endIndex(this)
    ELSE result

unionOverlapOnly(this, rhs_) ==
    IF rhs_ # Undefined
    THEN LET minStart == min(this.startIndex, rhs_.startIndex)
         IN [ref |-> "new", span |-> Span(minStart, max(this.length, rhs_.length))]
    ELSE [ref |-> "this", span |-> this]
union(this, rhs_) ==
    IF rhs_ # Undefined
    THEN LET minStart == min(this.startIndex, rhs_.startIndex)
             maxAfterEndIndex == max(afterEndIndex(this), afterEndIndex(rhs_))
         IN [ref |-> "new", span |-> Span(minStart, maxAfterEndIndex - minStart)]
    ELSE [ref |-> "this", span |-> this]

\* Span.union(lhs, rhs): lhs.union(rhs) called on lhs, so its "this" is lhs.
staticUnion(lhs_, rhs_) ==
    IF lhs_ # Undefined
    THEN LET u == union(lhs_, rhs_)
         IN [ref |-> IF u.ref = "this" THEN "lhs" ELSE u.ref, span |-> u.span]
    ELSE IF rhs_ # Undefined
         THEN [ref |-> "rhs", span |-> rhs_]
         ELSE [ref |-> "undefined", span |-> Undefined]

translateClamped(this, movement) ==
    IF movement = 0
    THEN [ref |-> "this", span |-> this]
    ELSE [ref |-> "new", span |-> Span(max(this.startIndex + movement, 0), this.length)]
translate(this, movement) ==
    IF movement = 0
    THEN [ref |-> "this", span |-> this]
    ELSE [ref |-> "new", span |-> Span(this.startIndex + movement, this.length)]

\* ----------------------------------------------------------- Span actions
Contains(index, includeAfterEndIndex) ==
    /\ lhs # Undefined
    /\ last' = [op |-> "contains", index |-> index, flag |-> includeAfterEndIndex,
                result |-> contains(lhs, index, includeAfterEndIndex)]
    /\ UNCHANGED <<lhs, rhs, paramVars>>

Union ==
    /\ lhs # Undefined
    /\ last' = [op |-> "union", result |-> union(lhs, rhs)]
    /\ UNCHANGED <<lhs, rhs, paramVars>>

StaticUnion ==
    /\ last' = [op |-> "staticUnion", result |-> staticUnion(lhs, rhs)]
    /\ UNCHANGED <<lhs, rhs, paramVars>>

Translate(movement) ==
    /\ lhs # Undefined
    /\ last' = [op |-> "translate", movement |-> movement,
                result |-> translate(lhs, movement)]
    /\ UNCHANGED <<lhs, rhs, paramVars>>

\* The parameter-file state of a session in which no template was opened.
InitNoParamFiles ==
    /\ isWin32 = FALSE
    /\ workspaceFolders = {}
    /\ checkForMatchingParamFiles = FALSE
    /\ userParamFiles = Undefined
    /\ neverAskFiles = << >>
    /\ _filesToIgnoreThisSession = {}
    /\ pending = {}
    /\ stream = Undefined

Init ==
    /\ lhs \in Spans \cup {Undefined}
    /\ rhs \in Spans \cup {Undefined}
    /\ last = [op |-> "init"]
    /\ InitNoParamFiles

Next ==
    \/ \E i \in Indexes, f \in BOOLEAN : Contains(i, f)
    \/ Union
    \/ StaticUnion
    \/ \E m \in Movements : Translate(m)

Spec == Init /\ [][Next]_vars

\* ----------------------------------------------------------------- claims

\* C1: for every Span s (startIndex >= 0, length >= 0, length 0 included),
\* s.contains(s.afterEndIndex) with the default includeAfterEndIndex = false
\* is false.
C1_AfterEndNotContained ==
    (/\ last.op = "contains"
     /\ last.flag = FALSE
     /\ lhs.startIndex >= 0 /\ lhs.length >= 0
     /\ last.index = afterEndIndex(lhs))
    => last.result = FALSE

\* C2: the union of two present spans contains every index either operand
\* contains (default includeAfterEndIndex), starts at the smaller startIndex
\* and ends at the larger afterEndIndex, zero-length operands included.
C2_UnionCoversBoth ==
    (last.op = "union" /\ rhs # Undefined)
    => LET u == last.result.span IN
       /\ \A i \in Indexes :
             (contains(lhs, i, FALSE) \/ contains(rhs, i, FALSE))
             => contains(u, i, FALSE)
       /\ u.startIndex = min(lhs.startIndex, rhs.startIndex)
       /\ afterEndIndex(u) = max(afterEndIndex(lhs), afterEndIndex(rhs))

\* C3: contains(index, includeAfterEndIndex) is true exactly when
\* startIndex <= index and index <= startIndex + max(length-1, 0) (flag
\* false) or index <= startIndex + length (flag true); Span(3,4) contains
\* 3..6, not 2 or 7, and 7 only with the flag set.
C3_ContainsIff ==
    last.op = "contains"
    => /\ last.result =
            (/\ lhs.startIndex <= last.index
             /\ IF last.flag
                THEN last.index <= lhs.startIndex + lhs.length
                ELSE last.index <= lhs.startIndex + max(lhs.length - 1, 0))
       /\ (lhs = Span(3, 4) /\ ~last.flag)
            => (last.result = (last.index \in {3, 4, 5, 6}))
       /\ (lhs = Span(3, 4) /\ last.flag)
            => (last.result = (last.index \in {3, 4, 5, 6, 7}))

C3_Witness ==
    /\ last.op = "contains"
    /\ lhs = Span(3, 4)
    /\ last.index = 7
    /\ last.flag
    /\ last.result = TRUE

\* C4: s.union(undefined) is s itself; s.union(t) is the span from the
\* smaller startIndex to the larger afterEndIndex; Span.union(l, r) is
\* undefined when both are undefined, the present one when one is, and
\* l.union(r) otherwise; s.union(t) and t.union(s) agree in startIndex and
\* length.
C4_UnionReference ==
    /\ last.op = "union"
       => IF rhs = Undefined
          THEN last.result = [ref |-> "this", span |-> lhs]
          ELSE /\ last.result.ref = "new"
               /\ last.result.span.startIndex = min(lhs.startIndex, rhs.startIndex)
               /\ afterEndIndex(last.result.span)
                    = max(afterEndIndex(lhs), afterEndIndex(rhs))
               /\ union(rhs, lhs).span = last.result.span
    /\ last.op = "staticUnion"
       => IF lhs = Undefined /\ rhs = Undefined
          THEN last.result = [ref |-> "undefined", span |-> Undefined]
          ELSE IF lhs = Undefined
          THEN last.result = [ref |-> "rhs", span |-> rhs]
          ELSE IF rhs = Undefined
          THEN last.result = [ref |-> "lhs", span |-> lhs]
          ELSE /\ last.result.ref = "new"
               /\ last.result.span.startIndex = min(lhs.startIndex, rhs.startIndex)
               /\ afterEndIndex(last.result.span)
                    = max(afterEndIndex(lhs), afterEndIndex(rhs))

\* Span(0,1).union(Span(3,1)): separated by a gap, bridged to Span(0,4).
C4_Witness ==
    /\ last.op = "union"
    /\ lhs = Span(3, 1)
    /\ rhs = Span(0, 1)
    /\ last.result.span = Span(0, 4)

\* C5: s.translate(a) has startIndex = s.startIndex + a (not clamped at 0)
\* and the same length; s.translate(0) returns s itself; and
\* s.translate(a).translate(b) equals s.translate(a+b) in startIndex and
\* length.
C5_TranslateAdditive ==
    last.op = "translate"
    => /\ last.result.span.startIndex = lhs.startIndex + last.movement
       /\ last.result.span.length = lhs.length
       /\ last.movement = 0 => last.result = [ref |-> "this", span |-> lhs]
       /\ \A b \in Movements :
             translate(last.result.span, b).span
               = translate(lhs, last.movement + b).span

\* A negative delta took the start below zero.
C5_Witness ==
    /\ last.op = "translate"
    /\ last.movement < 0
    /\ last.result.span.startIndex < 0
    /\ last.result.span.length = lhs.length

\* --------------------------------------------------------------- Position
MaxLine == 5         \* constructor arguments range over -MaxMove..MaxLine

Coords == (0 - MaxMove)..MaxLine

\* assert(cond, message): an AssertionError is thrown when cond is false.
AssertionError(message) == [ok |-> FALSE, error |-> "AssertionError", message |-> message]

PositionClamped(_line, _column) ==
    [ok |-> TRUE, position |-> [_line |-> max(_line, 0), _column |-> max(_column, 0)]]
Position(_line, _column) ==
    IF ~(_line >= 0)
    THEN AssertionError("_line cannot be less than 0")
    ELSE IF ~(_column >= 0)
    THEN AssertionError("_column cannot be less than 0")
    ELSE [ok |-> TRUE, position |-> [_line |-> _line, _column |-> _column]]

line(this) == this._line

column(this) == this._column

\* The Position the accessors are called on: the one the last call built or
\* was called on.
HasPosition == last.op \in {"newPosition", "line", "column"} /\ last.made.ok

NewPosition(_line, _column) ==
    /\ last' = [op |-> "newPosition", args |-> <<_line, _column>>,
                made |-> Position(_line, _column)]
    /\ UNCHANGED <<lhs, rhs, paramVars>>

GetLine ==
    /\ HasPosition
    /\ last' = [op |-> "line", args |-> last.args, made |-> last.made,
                result |-> line(last.made.position)]
    /\ UNCHANGED <<lhs, rhs, paramVars>>

GetColumn ==
    /\ HasPosition
    /\ last' = [op |-> "column", args |-> last.args, made |-> last.made,
                result |-> column(last.made.position)]
    /\ UNCHANGED <<lhs, rhs, paramVars>>

InitNoSpans ==
    /\ lhs = Undefined
    /\ rhs = Undefined
    /\ last = [op |-> "init"]
    /\ InitNoParamFiles

NextPosition ==
    \/ \E l \in Coords, c \in Coords : NewPosition(l, c)
    \/ GetLine
    \/ GetColumn

SpecPosition == InitNoSpans /\ [][NextPosition]_vars

\* C9: new Position(line, column) throws an assertion error whenever
\* line < 0 or column < 0 and otherwise succeeds, and then the line and
\* column accessors return exactly the constructor arguments.
C9_PositionRejectsNegative ==
    /\ last.op = "newPosition"
       => /\ last.made.ok = (last.args[1] >= 0 /\ last.args[2] >= 0)
          /\ ~last.made.ok => last.made.error = "AssertionError"
    /\ last.op = "line" => last.result = last.args[1]
    /\ last.op = "column" => last.result = last.args[2]

\* A negative column alone makes the constructor throw.
C9_Witness ==
    /\ last.op = "newPosition"
    /\ last.args[1] >= 0
    /\ last.args[2] < 0
    /\ ~last.made.ok

\* ------------------------------------------------------------------ Issue
IssueKind ==
    {"tleSyntax", "referenceInVar", "unusedVar", "unusedParam", "unusedUdfParam",
     "unusedUdf", "badArgsCount", "badFuncContext", "undefinedFunc", "undefinedNs",
     "undefinedUdf", "undefinedParam", "undefinedVar", "varInUdf", "undefinedVarProp"}

Messages == {"", "Undefined variable reference."}

IssueNoMessageCheck(_span, _message, kind) ==
    IF ~(1 <= _span.length)
    THEN AssertionError("_span's length must be greater than or equal to 1.")
    ELSE [ok |-> TRUE, issue |-> [span |-> _span, message |-> _message, kind |-> kind]]
Issue(_span, _message, kind) ==
    IF ~(1 <= _span.length)
    THEN AssertionError("_span's length must be greater than or equal to 1.")
    ELSE IF ~(_message # "")
    THEN AssertionError("_message must not be empty.")
    ELSE [ok |-> TRUE, issue |-> [span |-> _span, message |-> _message, kind |-> kind]]

issueTranslateLength(this, movement) ==
    Issue(Span(this.span.startIndex, this.span.length + movement), this.message, this.kind)
issueTranslateKind(this, movement) ==
    Issue(translate(this.span, movement).span, this.message, "tleSyntax")
issueTranslate(this, movement) ==
    Issue(translate(this.span, movement).span, this.message, this.kind)

\* The Issue translate is called on: the one the last call returned.
HasIssue == last.op \in {"newIssue", "issueTranslate"} /\ last.result.ok

\* new Issue(new Span(s, l), message, kind)
NewIssue(s, l, _message, kind) ==
    /\ last' = [op |-> "newIssue", span |-> Span(s, l), message |-> _message,
                kind |-> kind, result |-> Issue(Span(s, l), _message, kind)]
    /\ UNCHANGED <<lhs, rhs, paramVars>>

\* x.translate(movement), x the Issue the previous call returned.  `before`
\* is x as it was when the call started and `this` is x when it returned:
\* translate assigns to no field of x.  The start index is kept within
\* -(MaxStart + MaxMove) .. MaxStart + MaxMove.
IssueTranslate(movement) ==
    /\ HasIssue
    /\ LET x == last.result.issue IN
       /\ x.span.startIndex + movement >= 0 - (MaxStart + MaxMove)
       /\ x.span.startIndex + movement <= MaxStart + MaxMove
       /\ last' = [op |-> "issueTranslate", before |-> x, this |-> x,
                   movement |-> movement, result |-> issueTranslate(x, movement)]
    /\ UNCHANGED <<lhs, rhs, paramVars>>

NextIssue ==
    \/ \E s \in 0..MaxStart, l \in 0..MaxLen, m \in Messages, k \in IssueKind :
          NewIssue(s, l, m, k)
    \/ \E m \in Movements : IssueTranslate(m)

SpecIssue == InitNoSpans /\ [][NextIssue]_vars

ValidIssue(x) == x.span.length >= 1 /\ x.message # ""

\* C6: every Issue that exists after any sequence of constructions and
\* translate calls has span.length >= 1 and a non-empty message, and
\* translate never fails on such an Issue.
C6_IssueInvariant ==
    /\ HasIssue => ValidIssue(last.result.issue)
    /\ last.op = "issueTranslate"
       => /\ ValidIssue(last.this)
          /\ last.result.ok

\* An Issue translated twice in a row, ending left of offset 0.
C6_Witness ==
    /\ last.op = "issueTranslate"
    /\ last.movement < 0
    /\ last.before.span.startIndex < 0
    /\ last.result.ok
    /\ last.result.issue.span.startIndex < last.before.span.startIndex

\* C7: new Issue(span, message, kind) throws an assertion error, producing
\* no Issue, whenever span.length < 1 or message is empty, and succeeds for
\* every span of length >= 1 with a non-empty message and any kind.
C7_IssueConstructor ==
    last.op = "newIssue"
    => /\ last.result.ok = (last.span.length >= 1 /\ last.message # "")
       /\ ~last.result.ok
            => /\ last.result.error = "AssertionError"
               /\ "issue" \notin DOMAIN last.result
       /\ last.result.ok
            => last.result.issue
                 = [span |-> last.span, message |-> last.message, kind |-> last.kind]

\* A span of length >= 1 with an empty message is rejected.
C7_Witness ==
    /\ last.op = "newIssue"
    /\ last.span.length >= 1
    /\ last.message = ""
    /\ ~last.result.ok

\* C8: x.translate(d) is an Issue with x's message and kind whose span is
\* x.span.translate(d) (startIndex shifted by d, same length); x is left
\* unchanged; translating the result by -d gives an Issue equal to x in
\* span, message and kind.
C8_IssueTranslate ==
    last.op = "issueTranslate"
    => /\ last.result.ok
       /\ last.result.issue.message = last.before.message
       /\ last.result.issue.kind = last.before.kind
       /\ last.result.issue.span = translate(last.before.span, last.movement).span
       /\ last.result.issue.span.startIndex
            = last.before.span.startIndex + last.movement
       /\ last.result.issue.span.length = last.before.span.length
       /\ last.this = last.before
       /\ LET back == issueTranslate(last.result.issue, 0 - last.movement) IN
          /\ back.ok
          /\ back.issue = last.before

\* A non-zero translation of an Issue whose kind is not the first of the enum.
C8_Witness ==
    /\ last.op = "issueTranslate"
    /\ last.movement # 0
    /\ last.before.kind = "undefinedVarProp"
    /\ last.result.ok
    /\ last.result.issue.span.startIndex # last.before.span.startIndex

\* ------------------------------------------------- parameter-file mapping
\* A file path is the sequence of its segments, from the root.  A string
\* holding a path is [abs, segs]: absolute, or relative with ".." segments.
MaxNeverAsk == 2     \* entries kept in the don't-ask list before it is full

\* Uri.file(fsPath)
UriFile(fsPath) == [fsPath |-> fsPath]

templateA == UriFile(<<"a", "t.json">>)
templateB == UriFile(<<"A", "T.json">>)     \* differs from templateA by case alone
Templates == {templateA, templateB}

paramFar == UriFile(<<"b", "p.json">>)
notParams == UriFile(<<"b", "notes.json">>)

NotAString == [notAString |-> TRUE]

toLowerCase(s) ==
    CASE s = "A" -> "a"
      [] s = "T.json" -> "t.json"
      [] OTHER -> s

lowerPath(segs) == [i \in 1..Len(segs) |-> toLowerCase(segs[i])]

\* path.normalize of a rooted path: ".." removes the segment before it.
RECURSIVE pathNormalize(_)
pathNormalize(segs) ==
    IF segs = << >>
    THEN << >>
    ELSE LET front == pathNormalize(SubSeq(segs, 1, Len(segs) - 1))
             seg == segs[Len(segs)]
         IN IF seg = ".."
            THEN IF front = << >> THEN << >> ELSE SubSeq(front, 1, Len(front) - 1)
            ELSE Append(front, seg)

dirname(fsPath) == SubSeq(fsPath, 1, Len(fsPath) - 1)

normalizePath(fsPath) ==
    LET normalizedPath == pathNormalize(fsPath)
    IN IF isWin32 THEN lowerPath(normalizedPath) ELSE normalizedPath

\* path.relative(from, to): segments compare without case on win32.
sameSegment(a, b) == IF isWin32 THEN toLowerCase(a) = toLowerCase(b) ELSE a = b

RECURSIVE commonPrefix(_, _)
commonPrefix(from, to) ==
    IF from = << >> \/ to = << >> \/ ~sameSegment(from[1], to[1])
    THEN 0
    ELSE 1 + commonPrefix(Tail(from), Tail(to))

pathRelative(from, to) ==
    LET k == commonPrefix(from, to)
    IN [abs |-> FALSE,
        segs |-> [i \in 1..(Len(from) - k) |-> ".."] \o SubSeq(to, k + 1, Len(to))]

\* path.resolve(dir, value)
pathResolve(dir, value) ==
    IF value.abs THEN pathNormalize(value.segs) ELSE pathNormalize(dir \o value.segs)

isPrefix(folder, fsPath) ==
    /\ Len(folder) <= Len(fsPath)
    /\ SubSeq(fsPath, 1, Len(folder)) = folder

\* workspace.getWorkspaceFolder(uri) is defined
inWorkspaceFolder(uri) == \E folder \in workspaceFolders : isPrefix(folder, uri.fsPath)

getFriendlyPathToParamFile(templateUri, paramFileUri) ==
    IF inWorkspaceFolder(paramFileUri)
    THEN pathRelative(dirname(templateUri.fsPath), paramFileUri.fsPath)
    ELSE [abs |-> TRUE, segs |-> paramFileUri.fsPath]

\* The parameterFiles object is [entries |-> the sequence of its [key, value]
\* properties in property order]; a key is the path typed as the property
\* name.  paramFiles is what getConfiguration().get returns when no
\* workspace-level or default value exists: the user-level value.
Object(entries) == [entries |-> entries]

RECURSIVE findIn(_, _, _)
findIn(entries, templateFileUri, paramFile) ==
    IF entries = << >>
    THEN paramFile
    ELSE LET entry == Head(entries)
             next == IF /\ normalizePath(entry.key) = normalizePath(templateFileUri.fsPath)
                        /\ entry.value # NotAString
                     THEN UriFile(pathResolve(dirname(templateFileUri.fsPath), entry.value))
                     ELSE paramFile
         IN findIn(Tail(entries), templateFileUri, next)

findMappedParamFileForTemplate(paramFiles, templateFileUri) ==
    IF paramFiles # Undefined
    THEN findIn(paramFiles.entries, templateFileUri, Undefined)
    ELSE Undefined

RECURSIVE withoutTemplate(_, _)
withoutTemplate(map, normalizedTemplatePath) ==
    IF map = << >>
    THEN << >>
    ELSE IF normalizePath(Head(map).key) # normalizedTemplatePath
         THEN <<Head(map)>> \o withoutTemplate(Tail(map), normalizedTemplatePath)
         ELSE withoutTemplate(Tail(map), normalizedTemplatePath)

\* The value of the user-level setting after setMappedParamFileForTemplate.
setMappedParamFileForTemplate(map, templateUri, paramFileUri) ==
    LET relativeParamFilePath ==
            IF paramFileUri # Undefined
            THEN getFriendlyPathToParamFile(templateUri, paramFileUri)
            ELSE Undefined
        normalizedTemplatePath == normalizePath(templateUri.fsPath)
    IN IF map = Undefined
       THEN map
       ELSE LET newMap == withoutTemplate(map.entries, normalizedTemplatePath)
            IN IF paramFileUri # Undefined
               THEN Object(Append(newMap, [key |-> templateUri.fsPath,
                                           value |-> relativeParamFilePath]))
               ELSE Object(newMap)

\* --------------------------------------------------- suggested parameter files
\* A file name is read through the parts its dots separate.  No part of the
\* names below is a proper prefix of another, so "starts with" on the
\* dot-joined base names is "is a prefix of" on their parts.
nameParts(name) ==
    CASE name = "t.json" -> <<"t", "json">>
      [] name = "T.json" -> <<"T", "json">>
      [] name = "t.params.json" -> <<"t", "params", "json">>
      [] name = "p.json" -> <<"p", "json">>
      [] name = "notes.json" -> <<"notes", "json">>
      [] OTHER -> <<name>>

lowerPart(part) == IF part = "T" THEN "t" ELSE part

basename(fsPath) == fsPath[Len(fsPath)]

hasSupportedParamFileExtension(filePath) ==
    LET parts == nameParts(basename(filePath))
        extension == IF Len(parts) > 1 THEN lowerPart(parts[Len(parts)]) ELSE ""
    IN extension = "json" \/ extension = "jsonc"

\* fileName.replace(/\.[^.]+$/, ''): only the last extension goes.
removeAllExtensions(fileName) ==
    LET parts == nameParts(fileName)
    IN IF Len(parts) > 1 THEN SubSeq(parts, 1, Len(parts) - 1) ELSE parts

mayBeMatchingParamFile(templateFileName, paramFileName) ==
    IF ~hasSupportedParamFileExtension(paramFileName)
    THEN FALSE
    ELSE LET baseTemplateName ==
                 [i \in DOMAIN removeAllExtensions(basename(templateFileName)) |->
                    lowerPart(removeAllExtensions(basename(templateFileName))[i])]
             baseParamsName ==
                 [i \in DOMAIN removeAllExtensions(basename(paramFileName)) |->
                    lowerPart(removeAllExtensions(basename(paramFileName))[i])]
         IN /\ Len(baseTemplateName) <= Len(baseParamsName)
            /\ SubSeq(baseParamsName, 1, Len(baseTemplateName)) = baseTemplateName

\* The file system: fse.readdir(folder), and whether the head of a file
\* holds the parameters schema (containsParamsSchema).
readdir(folder) ==
    LET f == normalizePath(folder)
    IN CASE f = <<"a">> -> <<"t.json", "t.params.json">>
         [] f = <<"A">> -> <<"T.json">>
         [] f = <<"b">> -> <<"notes.json", "p.json">>
         [] OTHER -> << >>

fileContainsParamsSchema(filePath) == basename(filePath) \in {"t.params.json", "p.json"}

isParameterFile(filePath) ==
    IF ~hasSupportedParamFileExtension(filePath)
    THEN FALSE
    ELSE fileContainsParamsSchema(filePath)

RECURSIVE suggestionsFrom(_, _, _)
suggestionsFrom(templateUri, folder, fileNames) ==
    IF fileNames = << >>
    THEN << >>
    ELSE LET fullPath == Append(folder, Head(fileNames))
             rest == suggestionsFrom(templateUri, folder, Tail(fileNames))
         IN IF isParameterFile(fullPath)
            THEN <<[uri |-> UriFile(fullPath),
                    isCloseNameMatch |->
                        mayBeMatchingParamFile(templateUri.fsPath, fullPath)]>>
                 \o rest
            ELSE rest

findSuggestedParameterFiles(templateUri) ==
    suggestionsFrom(templateUri, dirname(templateUri.fsPath),
                    readdir(dirname(templateUri.fsPath)))

elements(seq) == {seq[i] : i \in DOMAIN seq}

canAsk(templateUri) ==
    IF ~checkForMatchingParamFiles
    THEN FALSE
    ELSE IF normalizePath(templateUri.fsPath) \in elements(neverAskFiles)
    THEN FALSE
    ELSE IF normalizePath(templateUri.fsPath) \in _filesToIgnoreThisSession
    THEN FALSE
    ELSE TRUE

neverAskAgainReplace(templateUri) == <<normalizePath(templateUri.fsPath)>>

\* neverAskAgain: the list read from globalState, with the key pushed.
neverAskAgain(templateUri) == Append(neverAskFiles, normalizePath(templateUri.fsPath))

\* ------------------------------------------------ parameter-file handlers
isCloseNameMatch(pf) == pf.isCloseNameMatch

BrowseFiles == {paramFar, notParams}

\* What the user does with the quick pick of selectParameterFile.
Picks ==
    {[kind |-> "none"], [kind |-> "cancel"]}
    \cup {[kind |-> "browse", file |-> f, anyway |-> a] : f \in BrowseFiles, a \in BOOLEAN}
    \cup {[kind |-> "item", index |-> i] : i \in 1..3}

\* The suggestions of the quick pick, the current parameter file added when
\* it is not among them.
pickItems(templateUri) ==
    LET suggestions == findSuggestedParameterFiles(templateUri)
        currentParamUri == findMappedParamFileForTemplate(userParamFiles, templateUri)
        found == {i \in DOMAIN suggestions :
                    currentParamUri # Undefined
                    /\ normalizePath(suggestions[i].uri.fsPath)
                         = normalizePath(currentParamUri.fsPath)}
    IN IF currentParamUri # Undefined /\ found = {}
       THEN Append(suggestions, [uri |-> currentParamUri, isCloseNameMatch |-> FALSE])
       ELSE suggestions

\* The index in pickItems of currentParamFile, 0 when there is none.
currentParamFile(templateUri) ==
    LET items == pickItems(templateUri)
        currentParamUri == findMappedParamFileForTemplate(userParamFiles, templateUri)
        found == {i \in DOMAIN items :
                    currentParamUri # Undefined
                    /\ normalizePath(items[i].uri.fsPath)
                         = normalizePath(currentParamUri.fsPath)}
    IN IF found = {} THEN 0 ELSE CHOOSE i \in found : \A j \in found : i <= j

Called(op, templateUri, outcome) ==
    [op |-> op, template |-> templateUri, outcome |-> outcome, setCalled |-> FALSE]

CalledSet(op, templateUri, outcome, paramFileUri) ==
    [op |-> op, template |-> templateUri, outcome |-> outcome, setCalled |-> TRUE,
     paramFile |-> paramFileUri]

\* await neverAskAgain(templateUri); await setMappedParamFileForTemplate(...)
NeverAskThenSet(op, templateUri, outcome, paramFileUri) ==
    /\ Len(neverAskFiles) < MaxNeverAsk
    /\ neverAskFiles' = neverAskAgain(templateUri)
    /\ userParamFiles' =
          setMappedParamFileForTemplate(userParamFiles, templateUri, paramFileUri)
    /\ last' = CalledSet(op, templateUri, outcome, paramFileUri)
    /\ UNCHANGED _filesToIgnoreThisSession

\* selectParameterFile from the quick pick on (lines 106-153).
Interpret(op, templateUri, pick) ==
    LET items == pickItems(templateUri) IN
    \/ /\ pick.kind = "none"
       /\ NeverAskThenSet(op, templateUri, "none", Undefined)
    \/ /\ pick.kind = "cancel"
       /\ last' = Called(op, templateUri, "UserCancelledError")
       /\ UNCHANGED <<userParamFiles, neverAskFiles, _filesToIgnoreThisSession>>
    \/ /\ pick.kind = "browse"
       /\ IF ~isParameterFile(pick.file.fsPath) /\ ~pick.anyway
          THEN /\ last' = Called(op, templateUri, "UserCancelledError")
               /\ UNCHANGED <<userParamFiles, neverAskFiles, _filesToIgnoreThisSession>>
          ELSE NeverAskThenSet(op, templateUri, "browse", pick.file)
    \/ /\ pick.kind = "item"
       /\ pick.index \in DOMAIN items
       /\ IF pick.index = currentParamFile(templateUri)
          THEN /\ _filesToIgnoreThisSession' =
                     _filesToIgnoreThisSession \cup {normalizePath(templateUri.fsPath)}
               /\ last' = Called(op, templateUri, "current")
               /\ UNCHANGED <<userParamFiles, neverAskFiles>>
          ELSE NeverAskThenSet(op, templateUri, "item", items[pick.index].uri)

SelectParameterFile(templateUri, pick) ==
    /\ Interpret("selectParameterFile", templateUri, pick)
    /\ UNCHANGED <<spanVars, isWin32, workspaceFolders, checkForMatchingParamFiles,
                   pending, stream>>

\* The answer to the prompt; "Choose File..." runs the selectParameterFile
\* command, whose quick pick the user then answers.
Responses ==
    {[title |-> "Yes"], [title |-> "No"]}
    \cup {[title |-> "Choose File...", pick |-> pick] : pick \in Picks}

ConsiderQueryingForParameterFile(templateUri, response) ==
    LET alreadyHasParamFile ==
            findMappedParamFileForTemplate(userParamFiles, templateUri) # Undefined
        closeMatches == SelectSeq(findSuggestedParameterFiles(templateUri), isCloseNameMatch)
        op == "considerQueryingForParameterFile"
    IN
    /\ IF alreadyHasParamFile
       THEN /\ last' = Called(op, templateUri, "alreadyHasParamFile")
            /\ UNCHANGED <<userParamFiles, neverAskFiles, _filesToIgnoreThisSession>>
       ELSE IF ~canAsk(templateUri)
       THEN /\ last' = Called(op, templateUri, "cannotAsk")
            /\ UNCHANGED <<userParamFiles, neverAskFiles, _filesToIgnoreThisSession>>
       ELSE IF closeMatches = << >>
       THEN /\ last' = Called(op, templateUri, "noCloseMatch")
            /\ UNCHANGED <<userParamFiles, neverAskFiles, _filesToIgnoreThisSession>>
       ELSE \E closestMatch \in elements(closeMatches) :
            \/ /\ response.title = "Yes"
               /\ userParamFiles' = setMappedParamFileForTemplate(
                                        userParamFiles, templateUri, closestMatch.uri)
               /\ last' = CalledSet(op, templateUri, "Yes", closestMatch.uri)
               /\ UNCHANGED <<neverAskFiles, _filesToIgnoreThisSession>>
            \/ /\ response.title = "No"
               /\ Len(neverAskFiles) < MaxNeverAsk
               /\ neverAskFiles' = neverAskAgain(templateUri)
               /\ last' = Called(op, templateUri, "No")
               /\ UNCHANGED <<userParamFiles, _filesToIgnoreThisSession>>
            \/ /\ response.title = "Choose File..."
               /\ Interpret(op, templateUri, response.pick)
    /\ UNCHANGED <<spanVars, isWin32, workspaceFolders, checkForMatchingParamFiles,
                   pending, stream>>

FindMappedParamFileForTemplate(templateFileUri) ==
    /\ last' = [op |-> "findMappedParamFileForTemplate", template |-> templateFileUri,
                setCalled |-> FALSE,
                result |-> findMappedParamFileForTemplate(userParamFiles, templateFileUri)]
    /\ UNCHANGED <<spanVars, paramVars>>

\* Values the user-level parameterFiles setting may hold when the session
\* starts: never written, empty, or edited by hand in settings.json.
PriorSettings ==
    {Undefined,
     Object(<< >>),
     Object(<<[key |-> templateB.fsPath, value |-> NotAString]>>),
     Object(<<[key |-> templateB.fsPath, value |-> [abs |-> TRUE, segs |-> paramFar.fsPath]],
              [key |-> templateA.fsPath,
               value |-> [abs |-> FALSE, segs |-> <<"..", "b", "p.json">>]]>>)}

InitParamFiles ==
    /\ lhs = Undefined
    /\ rhs = Undefined
    /\ last = [op |-> "init", setCalled |-> FALSE]
    /\ isWin32 \in BOOLEAN
    /\ workspaceFolders \in {{}, {<<"a">>}, {<< >>}}
    /\ checkForMatchingParamFiles \in BOOLEAN
    /\ userParamFiles \in PriorSettings
    /\ neverAskFiles = << >>
    /\ _filesToIgnoreThisSession = {}
    /\ pending = {}
    /\ stream = Undefined

NextParamFiles ==
    \/ \E t \in Templates, pick \in Picks : SelectParameterFile(t, pick)
    \/ \E t \in Templates, response \in Responses :
          ConsiderQueryingForParameterFile(t, response)
    \/ \E t \in Templates : FindMappedParamFileForTemplate(t)

SpecParamFiles == InitParamFiles /\ [][NextParamFiles]_vars

\* C10: after setMappedParamFileForTemplate(t, p) completes,
\* findMappedParamFileForTemplate(t) returns p when p is defined and
\* undefined when p is undefined, from any prior user-level setting, the
\* never-written one included; so answering "Yes" to the prompt makes the
\* detected file the mapped parameter file.
C10_SetThenFind ==
    last.setCalled
    => LET found == findMappedParamFileForTemplate(userParamFiles, last.template) IN
       IF last.paramFile = Undefined
       THEN found = Undefined
       ELSE /\ found # Undefined
            /\ normalizePath(found.fsPath) = normalizePath(last.paramFile.fsPath)

\* ------------------------------------- handlers, one step per resumption
\* A handler runs until it awaits and resumes in a later step; calls of
\* other handlers may run in between.  Awaits between which the handler
\* touches no shared state are taken in one step.  A suspended call is a
\* record in `pending` holding its locals.
MaxPending == 1      \* handler calls suspended at the same time

Task(handler, templateUri, pc, items, current, paramFileUri) ==
    [handler |-> handler, template |-> templateUri, pc |-> pc, items |-> items,
     current |-> current, paramFile |-> paramFileUri]

\* selectParameterFile up to `await ext.ui.showQuickPick` (lines 30-104).
AwaitingQuickPick(handler, templateUri) ==
    Task(handler, templateUri, "quickPick", pickItems(templateUri),
         currentParamFile(templateUri), Undefined)

Stepped(op, outcome) == [op |-> op, outcome |-> outcome]

AskSelectBegin(templateUri) ==
    /\ Cardinality(pending) < MaxPending
    /\ pending' = pending \cup {AwaitingQuickPick("selectParameterFile", templateUri)}
    /\ last' = Stepped("selectParameterFile", "quickPick")
    /\ UNCHANGED <<spanVars, isWin32, workspaceFolders, checkForMatchingParamFiles,
                   userParamFiles, neverAskFiles, _filesToIgnoreThisSession, stream>>

\* neverAskAgain runs to its `await globalState.update`; the handler goes on
\* to setMappedParamFileForTemplate when it resumes.
AskNeverAskThenAwait(task, outcome, paramFileUri) ==
    /\ Len(neverAskFiles) < MaxNeverAsk
    /\ neverAskFiles' = neverAskAgain(task.template)
    /\ pending' = (pending \ {task})
                    \cup {Task(task.handler, task.template, "set", << >>, 0, paramFileUri)}
    /\ last' = Stepped("neverAskAgain", outcome)
    /\ UNCHANGED _filesToIgnoreThisSession

\* selectParameterFile from the quick pick's result to the next await that
\* follows a change of state (lines 106-153).
AskSelectPick(task, pick) ==
    /\ task \in pending
    /\ task.pc = "quickPick"
    /\ \/ /\ pick.kind = "none"
          /\ AskNeverAskThenAwait(task, "none", Undefined)
       \/ /\ \/ pick.kind = "cancel"
             \/ pick.kind = "browse" /\ ~isParameterFile(pick.file.fsPath) /\ ~pick.anyway
          /\ pending' = pending \ {task}
          /\ last' = Stepped(task.handler, "UserCancelledError")
          /\ UNCHANGED <<neverAskFiles, _filesToIgnoreThisSession>>
       \/ /\ pick.kind = "browse"
          /\ isParameterFile(pick.file.fsPath) \/ pick.anyway
          /\ AskNeverAskThenAwait(task, "browse", pick.file)
       \/ /\ pick.kind = "item"
          /\ pick.index \in DOMAIN task.items
          /\ IF pick.index = task.current
             THEN /\ _filesToIgnoreThisSession' =
                        _filesToIgnoreThisSession \cup {normalizePath(task.template.fsPath)}
                  /\ pending' = pending \ {task}
                  /\ last' = Stepped("dontAskAgainThisSession", "current")
                  /\ UNCHANGED neverAskFiles
             ELSE AskNeverAskThenAwait(task, "item", task.items[pick.index].uri)
    /\ UNCHANGED <<spanVars, isWin32, workspaceFolders, checkForMatchingParamFiles,
                   userParamFiles, stream>>

\* The handler resumes after neverAskAgain and calls setMappedParamFileForTemplate.
AskSet(task) ==
    /\ task \in pending
    /\ task.pc = "set"
    /\ userParamFiles' =
          setMappedParamFileForTemplate(userParamFiles, task.template, task.paramFile)
    /\ pending' = pending \ {task}
    /\ last' = Stepped("setMappedParamFileForTemplate", "set")
    /\ UNCHANGED <<spanVars, isWin32, workspaceFolders, checkForMatchingParamFiles,
                   neverAskFiles, _filesToIgnoreThisSession, stream>>

\* considerQueryingForParameterFile up to `await findSuggestedParameterFiles`
\* (lines 280-303).
AskConsiderBegin(templateUri) ==
    LET alreadyHasParamFile ==
            findMappedParamFileForTemplate(userParamFiles, templateUri) # Undefined
        op == "considerQueryingForParameterFile"
    IN
    /\ IF alreadyHasParamFile
       THEN /\ last' = Stepped(op, "alreadyHasParamFile")
            /\ UNCHANGED pending
       ELSE IF ~canAsk(templateUri)
       THEN /\ last' = Stepped(op, "cannotAsk")
            /\ UNCHANGED pending
       ELSE /\ Cardinality(pending) < MaxPending
            /\ pending' = pending \cup {Task(op, templateUri, "prompt", << >>, 0, Undefined)}
            /\ last' = Stepped(op, "willAsk")
    /\ UNCHANGED <<spanVars, isWin32, workspaceFolders, checkForMatchingParamFiles,
                   userParamFiles, neverAskFiles, _filesToIgnoreThisSession, stream>>

\* considerQueryingForParameterFile from the suggestions to the answer to the
\* prompt and what the answer runs (lines 304-345).
AskConsiderAnswer(task, title) ==
    LET closeMatches ==
            SelectSeq(findSuggestedParameterFiles(task.template), isCloseNameMatch)
    IN
    /\ task \in pending
    /\ task.pc = "prompt"
    /\ IF closeMatches = << >>
       THEN /\ pending' = pending \ {task}
            /\ last' = Stepped(task.handler, "noCloseMatch")
            /\ UNCHANGED <<userParamFiles, neverAskFiles>>
       ELSE \E closestMatch \in elements(closeMatches) :
            \/ /\ title = "Yes"
               /\ userParamFiles' = setMappedParamFileForTemplate(
                                        userParamFiles, task.template, closestMatch.uri)
               /\ pending' = pending \ {task}
               /\ last' = Stepped(task.handler, "Yes")
               /\ UNCHANGED neverAskFiles
            \/ /\ title = "No"
               /\ Len(neverAskFiles) < MaxNeverAsk
               /\ neverAskFiles' = neverAskAgain(task.template)
               /\ pending' = pending \ {task}
               /\ last' = Stepped("neverAskAgain", "No")
               /\ UNCHANGED userParamFiles
            \/ /\ title = "Choose File..."
               /\ pending' = (pending \ {task})
                               \cup {AwaitingQuickPick(task.handler, task.template)}
               /\ last' = Stepped(task.handler, "Choose File...")
               /\ UNCHANGED <<userParamFiles, neverAskFiles>>
    /\ UNCHANGED <<spanVars, isWin32, workspaceFolders, checkForMatchingParamFiles,
                   _filesToIgnoreThisSession, stream>>

InitAsk ==
    /\ lhs = Undefined
    /\ rhs = Undefined
    /\ last = Stepped("init", "init")
    /\ isWin32 \in BOOLEAN
    /\ workspaceFolders = {<<"a">>}
    /\ checkForMatchingParamFiles = TRUE
    /\ userParamFiles = Object(<< >>)
    /\ neverAskFiles = << >>
    /\ _filesToIgnoreThisSession = {}
    /\ pending = {}
    /\ stream = Undefined

NextAsk ==
    \/ \E t \in Templates : AskSelectBegin(t)
    \/ \E task \in pending, pick \in Picks : AskSelectPick(task, pick)
    \/ \E task \in pending : AskSet(task)
    \/ \E t \in Templates : AskConsiderBegin(t)
    \/ \E task \in pending, title \in {"Yes", "No", "Choose File..."} :
          AskConsiderAnswer(task, title)

SpecAsk == InitAsk /\ [][NextAsk]_vars

inNeverAskFiles(templateUri) ==
    normalizePath(templateUri.fsPath) \in elements(neverAskFiles)

MaxItems == 3        \* suggestions in the list that is sorted

\* Possible parameter files of one folder, each a close name match or not.
ParamFileNames == {"a.params.json", "b.params.json", "t.params.json"}

PossibleParamFiles ==
    {[uri |-> UriFile(<<"a", name>>), isCloseNameMatch |-> close] :
        name \in ParamFileNames, close \in BOOLEAN}

RECURSIVE seqsUpTo(_, _)
seqsUpTo(S, n) ==
    IF n = 0
    THEN {<< >>}
    ELSE LET shorter == seqsUpTo(S, n - 1)
         IN shorter \cup {Append(s, x) : s \in {q \in shorter : Len(q) = n - 1}, x \in S}

\* Position of a path in the collation order of String.localeCompare.
collationRank(fsPath) ==
    LET name == fsPath[Len(fsPath)]
    IN CASE name = "a.params.json" -> 1
         [] name = "b.params.json" -> 2
         [] name = "t.params.json" -> 3
         [] OTHER -> 0

localeCompare(x, y) ==
    IF collationRank(x) < collationRank(y) THEN -1
    ELSE IF collationRank(x) > collationRank(y) THEN 1
    ELSE 0

\* The comparator handed to pickItems.sort: bData is read from a.
comparePickItems(a, b) ==
    LET aData == a
        bData == a
    IN IF a.isCloseNameMatch # b.isCloseNameMatch
       THEN IF a.isCloseNameMatch THEN -1 ELSE 1
       ELSE localeCompare(aData.uri.fsPath, bData.uri.fsPath)

\* Array.prototype.sort is stable: an item goes before the first one the
\* comparator puts it before, and behind the earlier ones it ties with.
RECURSIVE insertPickItem(_, _)
insertPickItem(sorted, item) ==
    IF sorted = << >>
    THEN <<item>>
    ELSE IF comparePickItems(item, Head(sorted)) < 0
    THEN <<item>> \o sorted
    ELSE <<Head(sorted)>> \o insertPickItem(Tail(sorted), item)

RECURSIVE sortPickItems(_)
sortPickItems(items) ==
    IF items = << >>
    THEN << >>
    ELSE insertPickItem(sortPickItems(SubSeq(items, 1, Len(items) - 1)),
                        items[Len(items)])

SortPickItems(items) ==
    /\ last' = [op |-> "sort", items |-> items, sorted |-> sortPickItems(items)]
    /\ UNCHANGED <<spanVars, paramVars>>

NextSort == \E items \in seqsUpTo(PossibleParamFiles, MaxItems) : SortPickItems(items)

SpecSort == InitNoSpans /\ [][NextSort]_vars

\* C12: after the sort of selectParameterFile every close name match comes
\* before every item that is none, and items with the same isCloseNameMatch
\* are in ascending localeCompare order of their fsPath.
C12_SortedPickItems ==
    last.op = "sort" =>
        \A i, j \in DOMAIN last.sorted :
            i < j =>
                /\ last.sorted[j].isCloseNameMatch => last.sorted[i].isCloseNameMatch
                /\ last.sorted[i].isCloseNameMatch = last.sorted[j].isCloseNameMatch
                     => localeCompare(last.sorted[i].uri.fsPath,
                                      last.sorted[j].uri.fsPath) <= 0

\* ------------------------------------ isParameterFile, doesFileContainString
readAtMostBytesToFindParamsSchema == 4 * 1024

\* Files isParameterFile is called with: a path, the size in bytes, and where
\* the first text containsParamsSchema accepts ends (0 when there is none).
FileSizes == {0, 1024, 4096, 8192}
MarkerEnds == {0, 100, 4096, 4097, 8192}
FilePaths == {<<"b", "p.json">>, <<"b", "readme">>}

Files ==
    {file \in [filePath : FilePaths, fileLen : FileSizes, markerEnd : MarkerEnds] :
        file.markerEnd <= file.fileLen}

\* Sizes of the chunks a read stream hands to the 'data' listener.
ChunkSizes == {1024, 4096, 65536}

\* containsParamsSchema(content): the accepted text lies within what was read.
containsParamsSchema(file, content) == file.markerEnd # 0 /\ file.markerEnd <= content

askVars == <<isWin32, workspaceFolders, checkForMatchingParamFiles, userParamFiles,
             neverAskFiles, _filesToIgnoreThisSession, pending>>

settled == IF stream = Undefined THEN TRUE ELSE stream.returned

\* isParameterFile to `await doesFileContainString`, whose executor creates
\* the stream and registers the listeners.
IsParameterFile(file) ==
    /\ settled
    /\ IF ~hasSupportedParamFileExtension(file.filePath)
       THEN /\ last' = [op |-> "isParameterFile", file |-> file, result |-> FALSE]
            /\ stream' = Undefined
       ELSE /\ last' = [op |-> "doesFileContainString", file |-> file, result |-> FALSE]
            /\ stream' = [file |-> file, content |-> 0, state |-> "open",
                          promise |-> "pending", returned |-> FALSE]
    /\ UNCHANGED <<spanVars, askVars>>

\* stream.on('data', ...)
OnData(chunk) ==
    /\ stream # Undefined
    /\ stream.state = "open"
    /\ stream.content < stream.file.fileLen
    /\ LET content == min(stream.content + chunk, stream.file.fileLen)
       IN stream' =
            IF containsParamsSchema(stream.file, content)
            THEN [stream EXCEPT !.content = content, !.state = "closed",
                                !.promise = "true"]
            ELSE [stream EXCEPT !.content = content]
    /\ UNCHANGED <<spanVars, askVars, last>>

\* stream.on('end', ...)
OnEnd ==
    /\ stream # Undefined
    /\ stream.state = "open"
    /\ stream.content = stream.file.fileLen
    /\ stream' = [stream EXCEPT !.state = "ended", !.promise = "false"]
    /\ UNCHANGED <<spanVars, askVars, last>>

\* stream.on('error', ...)
OnError ==
    /\ stream # Undefined
    /\ stream.state = "open"
    /\ stream' = [stream EXCEPT !.state = "errored", !.promise = "rejected"]
    /\ UNCHANGED <<spanVars, askVars, last>>

\* isParameterFile from the settled promise to its return.
IsParameterFileReturn ==
    /\ stream # Undefined
    /\ stream.promise # "pending"
    /\ ~stream.returned
    /\ stream' = [stream EXCEPT !.returned = TRUE]
    /\ last' = [op |-> "isParameterFile", file |-> stream.file,
                result |-> (stream.promise = "true")]
    /\ UNCHANGED <<spanVars, askVars>>

NextStream ==
    \/ \E file \in Files : IsParameterFile(file)
    \/ \E chunk \in ChunkSizes : OnData(chunk)
    \/ OnEnd
    \/ OnError
    \/ IsParameterFileReturn

SpecStream == InitNoSpans /\ [][NextStream]_vars

\* C13: isParameterFile looks at the first 4096 bytes only: the stream of
\* doesFileContainString never accumulates more than maxBytesToRead bytes,
\* and a file whose marker first ends beyond 4096 bytes is not reported as
\* a parameter file.
C13_ReadsAtMostMaxBytes ==
    /\ stream # Undefined => stream.content <= readAtMostBytesToFindParamsSchema
    /\ (last.op = "isParameterFile" /\ last.result)
          => last.file.markerEnd <= readAtMostBytesToFindParamsSchema

====
